---- MODULE Spec2Model ----
(***************************************************************************)
(* The resumable multipart upload engine of flowy-storage (manager.rs):    *)
(* StorageManager, StorageServiceImpl and the free functions start_upload, *)
(* upload_part, complete_upload and handle_upload_error, together with the *)
(* collaborators they drive (the upload store, the task queue and its      *)
(* single runner, the cloud service, the progress channel).                *)
(*                                                                         *)
(* Progress values are kept as integer percent: 100 stands for 1.0, 90 for *)
(* 0.9, and part/total is floor(100 * part / total).  The comparison with  *)
(* 0.9 and the order of two values are the same in both scales.            *)
(* An upload_id is a natural number, 0 standing for the empty string.      *)
(***************************************************************************)
EXTENDS Integers, Sequences, FiniteSets, TLC

\* ---------------------------------------------------------------- bounds
\* Number of chunks of the larger of the two files.
MaxChunk == 2
\* Number of distinct upload ids the cloud can hand out.
MaxUploadId == 2
\* Longest task queue explored.
MaxQueue == 2
\* Most events waiting in the broadcast channel for the forwarder.
MaxChan == 1
\* Most failed seeks of set_offset in one behaviour.
MaxFaults == 1

\* ------------------------------------------------------- program constants
\* retry_count of an ImmediateTask.
ImmediateRetry == 3
\* retry_count of a Task and of a BackgroundTask.
BackgroundRetry == 0

\* -------------------------------------------------------------- universes
Files == {"f0", "f1", "f2"}
\* calculate_offsets(file_size, MIN_CHUNK_SIZE).len() of each file's content.
\* f0 is an empty file, f2 fits in one chunk.
NumChunk(f) == IF f = "f1" THEN MaxChunk ELSE IF f = "f2" THEN 1 ELSE 0
Runners == {"uploader", "caller"}
Callers == {"c1", "c2"}
ErrKinds == {"transient", "file_limit", "single_file_limit"}

VARIABLES
  upload_file_table,       \* file -> row of upload_file_table (or no row)
  upload_file_part,        \* set of <<upload_id, part_num>> rows
  temp_files,              \* files whose temp copy exists in cache_files
  task_queue,              \* sequence of UploadTask
  run,                     \* runner -> position and locals of its start_upload
  cloud,                   \* cloud side: next fresh id, session and completion per file
  global_notifier,         \* events sent and not yet received by the forwarder
  progress_notifiers,      \* file -> per-file ProgressNotifier entry
  is_exceed_storage_limit, \* the quota flag shared with the uploader
  output,                  \* what the latest step sent out: notifications, returns
  calls,                   \* caller -> position and locals of its create_upload
  recovery,                \* the deferred recovery task: "sleeping" or "done"
  hist,                    \* history: whether the last run of a file failed at completion,
                           \* whether an Uploading event with p >= 0.9 was sent for it
  faults,                  \* failures of set_offset still to come
  network_reachable,       \* the uploader's network gate
  manager                  \* whether the StorageManager was dropped, and whether the
                           \* progress forwarder is still in its loop

vars == <<upload_file_table, upload_file_part, temp_files, task_queue, run, cloud,
          global_notifier, progress_notifiers, is_exceed_storage_limit,
          output, calls, recovery, hist, faults,
                 network_reachable, manager>>

dbVars == <<upload_file_table, upload_file_part>>

\* ------------------------------------------------------------ upload store
NoRow == [present |-> FALSE, upload_id |-> 0, is_finish |-> FALSE]

\* The row create_upload_record builds: upload_id "" and is_finish false.
create_upload_record == [present |-> TRUE, upload_id |-> 0, is_finish |-> FALSE]

\* insert_upload_file answers Duplicate when the key (workspace, parent_dir,
\* file_id) is taken.
IsDuplicate(tbl, f) == tbl[f].present

insert_upload_file(tbl, f) == [tbl EXCEPT ![f] = create_upload_record]

\* select_upload_parts: the part numbers stored under an upload_id.
select_upload_parts(pts, uid) == {p[2] : p \in {q \in pts : q[1] = uid}}

\* delete_upload_file(upload_id): the rows of that upload_id, and their parts.
delete_upload_file_rows(tbl, uid) ==
  [f \in Files |-> IF tbl[f].present /\ tbl[f].upload_id = uid THEN NoRow ELSE tbl[f]]

delete_all_upload_parts(pts, uid) == {q \in pts : q[1] # uid}

update_upload_file_upload_id(tbl, f, uid) ==
  IF tbl[f].present THEN [tbl EXCEPT ![f].upload_id = uid] ELSE tbl

\* update_upload_file_completed(upload_id) sets is_finish on the rows of that id.
update_upload_file_completed(tbl, uid) ==
  [f \in Files |-> IF tbl[f].present /\ tbl[f].upload_id = uid
                  THEN [tbl[f] EXCEPT !.is_finish = TRUE] ELSE tbl[f]]

\* insert_upload_part: rows are keyed by (upload_id, part_num).
insert_upload_part(pts, uid, pn) == pts \cup {<<uid, pn>>}

\* batch_select_upload_file(conn, 100, false): the unfinished records.
batch_select_upload_file(tbl) == {f \in Files : tbl[f].present /\ ~tbl[f].is_finish}

\* The members of a set of numbers in ascending order.
RECURSIVE Ascending(_)
Ascending(S) ==
  IF S = {} THEN <<>>
  ELSE LET m == CHOOSE x \in S : \A y \in S : x <= y
       IN <<m>> \o Ascending(S \ {m})

\* ----------------------------------------------------------------- values
NoTask == [kind |-> "none", file |-> "none", retry_count |-> 0]

IdleRun ==
  [pc |-> "idle", file |-> "none", task |-> NoTask,
   snap |-> 0,              \* upload_id of the record the run was given
   upload_id |-> 0,         \* upload_file.upload_id of the run's own copy
   offset |-> 0,            \* upload_offset
   pos |-> 0,               \* chunks the reader has passed
   part_number |-> 0,
   completed_parts |-> <<>>,
   result |-> "none",       \* "ok", or the kind of the error returned
   after_cf |-> FALSE]      \* the record's previous run ended in a failed completion

IdleCall == [pc |-> "idle", file |-> "none"]

\* What a step sends out: a StorageNotification, the return of a create_upload.
Notify(n) == <<"notify", "-", n>>
Return(c, v) == <<"return", c, v>>

NoEntry == [present |-> FALSE, state |-> "none", progress |-> 0]
\* ProgressNotifier::new: an entry without a current value.
NewEntry == [present |-> TRUE, state |-> "none", progress |-> 0]

Event(f, p, e) == [file |-> f, progress |-> p, error |-> e]

\* The state StorageManager::new leaves, over an empty store.
Constructed ==
  /\ upload_file_table = [f \in Files |-> NoRow]
  /\ upload_file_part = {}
  /\ temp_files = {}
  /\ task_queue = <<>>
  /\ run = [r \in Runners |-> IdleRun]
  /\ cloud = [next |-> 1, session |-> [f \in Files |-> 0],
              completed |-> [f \in Files |-> FALSE]]
  /\ global_notifier = <<>>
  /\ progress_notifiers = [f \in Files |-> NoEntry]
  /\ is_exceed_storage_limit = FALSE
  /\ output = {}
  /\ calls = [c \in Callers |-> IdleCall]
  /\ recovery = "sleeping"
  /\ hist = [complete_failed |-> [f \in Files |-> FALSE],
             uploading90 |-> [f \in Files |-> FALSE]]
  /\ network_reachable = TRUE
  /\ manager = [dropped |-> FALSE, forwarder |-> "running"]

\* No seek of set_offset fails.
Init == Constructed /\ faults = 0

\* Up to MaxFaults seeks of set_offset fail.
InitSeek == Constructed /\ faults = MaxFaults

\* ------------------------------------------------------- progress channel
CanSend == Len(global_notifier) < MaxChan

\* ------------------------------------------------- StorageService::create_upload
\* A quota test that lets every call through.
quota_never_exceeded(flag) == FALSE

\* The quota test at the head of create_upload.
storage_limit_exceeded(flag) == flag

\* create_upload while the quota flag is set: notify and return the error.
create_upload_rejected(c) ==
  /\ calls[c].pc = "idle"
  /\ ~manager.dropped
  /\ storage_limit_exceeded(is_exceed_storage_limit)
  /\ output' = {Notify("FileStorageLimitExceeded"), Return(c, "file_storage_limit")}
  /\ UNCHANGED <<dbVars, temp_files, task_queue, run, cloud, global_notifier,
                 progress_notifiers, is_exceed_storage_limit, calls, recovery, hist,
                 faults,
                 network_reachable, manager>>

\* create_temp_file_from_existing: the content-addressed copy in cache_files.
create_upload_copy(c, f) ==
  /\ calls[c].pc = "idle"
  /\ ~manager.dropped
  /\ ~storage_limit_exceeded(is_exceed_storage_limit)
  /\ temp_files' = temp_files \cup {f}
  /\ calls' = [calls EXCEPT ![c] = [pc |-> "copied", file |-> f]]
  /\ output' = {}
  /\ UNCHANGED <<dbVars, task_queue, run, cloud, global_notifier, progress_notifiers,
                 is_exceed_storage_limit, recovery, hist, faults,
                 network_reachable, manager>>

\* An error arm that passes the Duplicate error on to the caller.
insert_error_returned(c) == Return(c, "duplicate_record")

\* The Err arm of the insert: DuplicateSqliteRecord becomes Ok without a stream.
insert_error_outcome(c) == Return(c, "created_no_stream")

\* create_upload_record opens the temp file, then insert_upload_file decides.
create_upload_insert(c) ==
  LET f == calls[c].file IN
  /\ calls[c].pc = "copied"
  /\ IF f \notin temp_files
     THEN /\ calls' = [calls EXCEPT ![c] = IdleCall]
          /\ output' = {Return(c, "io_error")}
          /\ UNCHANGED upload_file_table
     ELSE IF IsDuplicate(upload_file_table, f)
     THEN /\ calls' = [calls EXCEPT ![c] = IdleCall]
          /\ output' = {insert_error_outcome(c)}
          /\ UNCHANGED upload_file_table
     ELSE /\ upload_file_table' = insert_upload_file(upload_file_table, f)
          /\ calls' = [calls EXCEPT ![c].pc = "inserted"]
          /\ output' = {}
  /\ UNCHANGED <<upload_file_part, temp_files, task_queue, run, cloud, global_notifier,
                 progress_notifiers, is_exceed_storage_limit, recovery, hist, faults,
                 network_reachable, manager>>

\* The task create_upload queues after a successful insert.
create_upload_task(f, upload_immediately) ==
  IF upload_immediately
  THEN [kind |-> "ImmediateTask", file |-> f, retry_count |-> ImmediateRetry]
  ELSE [kind |-> "Task", file |-> f, retry_count |-> BackgroundRetry]

\* An enqueue that does not wait for the insert.
enqueue_before_insert(pc) == pc \in {"copied", "inserted"}

\* queue_task is reached in the Ok arm of insert_upload_file only.
insert_succeeded(pc) == pc = "inserted"

create_upload_enqueue(c, upload_immediately) ==
  /\ insert_succeeded(calls[c].pc)
  /\ Len(task_queue) < MaxQueue
  /\ task_queue' = Append(task_queue, create_upload_task(calls[c].file, upload_immediately))
  /\ calls' = [calls EXCEPT ![c].pc = "enqueued"]
  /\ output' = {}
  /\ UNCHANGED <<dbVars, temp_files, run, cloud, global_notifier, progress_notifiers,
                 is_exceed_storage_limit, recovery, hist, faults,
                 network_reachable, manager>>

\* progress_notifiers.insert(file_id, ProgressNotifier::new(..)) and the return.
create_upload_register(c) ==
  /\ calls[c].pc = "enqueued"
  /\ progress_notifiers' = [progress_notifiers EXCEPT ![calls[c].file] = NewEntry]
  /\ calls' = [calls EXCEPT ![c] = IdleCall]
  /\ output' = {Return(c, "created_with_stream")}
  /\ UNCHANGED <<dbVars, temp_files, task_queue, run, cloud, global_notifier,
                 is_exceed_storage_limit, recovery, hist, faults,
                 network_reachable, manager>>

\* ------------------------------------------------------- handle_upload_error
\* is_single_file_limit_exceeded: delete_upload_file(upload_id).
handle_upload_error_table(tbl, kind, uid) ==
  IF kind = "single_file_limit" THEN delete_upload_file_rows(tbl, uid) ELSE tbl

handle_upload_error_parts(pts, kind, uid) ==
  IF kind = "single_file_limit" THEN delete_all_upload_parts(pts, uid) ELSE pts

handle_upload_error_notify(kind) ==
  (IF kind = "file_limit" THEN {Notify("FileStorageLimitExceeded")} ELSE {})
    \cup (IF kind = "single_file_limit" THEN {Notify("SingleFileLimitExceeded")} ELSE {})

\* ------------------------------------------------------------- start_upload
\* The parts persisted for the record of f, under its current upload_id.
RecordParts(f) ==
  IF upload_file_table[f].present
  THEN select_upload_parts(upload_file_part, upload_file_table[f].upload_id)
  ELSE {}

\* A run of start_upload on the record of f, given with upload_id snap.
StartRun(f, snap, task) ==
  [IdleRun EXCEPT !.pc = "begin", !.file = f, !.task = task, !.snap = snap,
                  !.upload_id = snap, !.after_cf = hist.complete_failed[f]]

\* The run returns: its locals are dropped, the result is left for the caller.
Returned(uf, res) ==
  [IdleRun EXCEPT !.pc = "returned", !.file = uf.file, !.task = uf.task,
                  !.result = res]

\* The outcome of the run as the history of the file keeps it.
Ended(h, f, outcome) == [h EXCEPT !.complete_failed[f] = (outcome = "complete_failed")]

\* The local file is gone: the record is deleted by the given upload_id, then
\* ChunkedBytes::from_file fails and the error is returned.
start_upload_missing_file(r) ==
  LET uf == run[r] IN
  /\ uf.pc = "begin"
  /\ uf.file \notin temp_files
  /\ upload_file_table' = delete_upload_file_rows(upload_file_table, uf.snap)
  /\ upload_file_part' = delete_all_upload_parts(upload_file_part, uf.snap)
  /\ run' = [run EXCEPT ![r] = Returned(uf, "missing_file")]
  /\ hist' = Ended(hist, uf.file, "failed")
  /\ output' = {}
  /\ UNCHANGED <<temp_files, task_queue, cloud, global_notifier, progress_notifiers,
                 is_exceed_storage_limit, calls, recovery, faults,
                 network_reachable, manager>>

\* completed_parts and upload_offset from the parts of the given upload_id.
Loaded(uf) ==
  LET parts == select_upload_parts(upload_file_part, uf.snap) IN
  [uf EXCEPT !.pc = "create", !.completed_parts = Ascending(parts),
             !.offset = Cardinality(parts)]

\* The file exists and set_offset(upload_offset) succeeds.
start_upload_begin(r) ==
  LET uf == run[r]
      ld == Loaded(uf) IN
  /\ uf.pc = "begin"
  /\ uf.file \in temp_files
  /\ ld.offset <= NumChunk(uf.file)
  /\ run' = [run EXCEPT ![r] = [ld EXCEPT !.pos = ld.offset]]
  /\ output' = {}
  /\ UNCHANGED <<dbVars, temp_files, task_queue, cloud, global_notifier,
                 progress_notifiers, is_exceed_storage_limit, calls, recovery, hist,
                 faults,
                 network_reachable, manager>>

\* set_offset fails (offset out of range, or the seek fails): the record is
\* deleted by the given upload_id and the run goes on, the reader at its start.
start_upload_set_offset_failed(r) ==
  LET uf == run[r]
      ld == Loaded(uf) IN
  /\ uf.pc = "begin"
  /\ uf.file \in temp_files
  /\ ld.offset > NumChunk(uf.file) \/ faults > 0
  /\ faults' = IF ld.offset > NumChunk(uf.file) THEN faults ELSE faults - 1
  /\ upload_file_table' = delete_upload_file_rows(upload_file_table, uf.snap)
  /\ upload_file_part' = delete_all_upload_parts(upload_file_part, uf.snap)
  /\ run' = [run EXCEPT ![r] = [ld EXCEPT !.pos = 0]]
  /\ output' = {}
  /\ UNCHANGED <<temp_files, task_queue, cloud, global_notifier, progress_notifiers,
                 is_exceed_storage_limit, calls, recovery, hist, network_reachable, manager>>

\* The upload ids cloud.create_upload may answer for f: the one of its session
\* for that file identity, or an id it never gave before.
CloudUploadIds(f) ==
  (IF cloud.session[f] # 0 THEN {cloud.session[f]} ELSE {})
    \cup (IF cloud.next <= MaxUploadId THEN {cloud.next} ELSE {})

\* Where the loop stands once the reader has passed pos chunks.
LoopPc(f, pos) == IF pos < NumChunk(f) THEN "parts" ELSE "complete"

\* cloud.create_upload answers uid: update_upload_file_upload_id, then the loop.
start_upload_create(r, uid) ==
  LET uf == run[r]
      f == uf.file IN
  /\ uf.pc = "create"
  /\ uid \in CloudUploadIds(f)
  /\ cloud' = [cloud EXCEPT !.session[f] = uid,
                            !.next = IF uid = cloud.next THEN cloud.next + 1 ELSE cloud.next]
  /\ upload_file_table' = update_upload_file_upload_id(upload_file_table, f, uid)
  /\ run' = [run EXCEPT ![r] = [uf EXCEPT !.upload_id = uid,
                                          !.part_number = uf.offset + 1,
                                          !.pc = LoopPc(f, uf.pos)]]
  /\ output' = {}
  /\ UNCHANGED <<upload_file_part, temp_files, task_queue, global_notifier,
                 progress_notifiers, is_exceed_storage_limit, calls, recovery, hist,
                 faults,
                 network_reachable, manager>>

\* cloud.create_upload fails: handle_upload_error with the given upload_id.
start_upload_create_failed(r, kind) ==
  LET uf == run[r] IN
  /\ uf.pc = "create"
  /\ upload_file_table' = handle_upload_error_table(upload_file_table, kind, uf.upload_id)
  /\ upload_file_part' = handle_upload_error_parts(upload_file_part, kind, uf.upload_id)
  /\ output' = handle_upload_error_notify(kind)
  /\ run' = [run EXCEPT ![r] = Returned(uf, kind)]
  /\ hist' = Ended(hist, uf.file, "failed")
  /\ UNCHANGED <<temp_files, task_queue, cloud, global_notifier, progress_notifiers,
                 is_exceed_storage_limit, calls, recovery, faults,
                 network_reachable, manager>>

\* The ratio without the hold at 0.9.
progress_value_unheld(part_number, total_parts) ==
  LET raw == (part_number * 100) \div total_parts
  IN IF raw > 100 THEN 100 ELSE raw

\* (part_number / total_parts).clamp(0.0, 1.0), held at 0.9 from 0.9 upwards.
progress_value(part_number, total_parts) ==
  LET raw == (part_number * 100) \div total_parts
      clamped == IF raw > 100 THEN 100 ELSE raw
  IN IF clamped >= 90 THEN 90 ELSE clamped

\* One turn of the loop: the chunk is read, the part is acknowledged by the
\* cloud, persisted by upload_part, and the progress is sent.
upload_part_ok(r) ==
  LET uf == run[r]
      f == uf.file
      p == progress_value(uf.part_number, NumChunk(f)) IN
  /\ uf.pc = "parts"
  /\ CanSend
  /\ upload_file_part' = insert_upload_part(upload_file_part, uf.upload_id, uf.part_number)
  /\ global_notifier' = Append(global_notifier, Event(f, p, FALSE))
  /\ run' = [run EXCEPT ![r] =
       [uf EXCEPT !.completed_parts = Append(uf.completed_parts, uf.part_number),
                  !.part_number = uf.part_number + 1,
                  !.pos = uf.pos + 1,
                  !.pc = LoopPc(f, uf.pos + 1)]]
  /\ hist' = [hist EXCEPT !.uploading90[f] = @ \/ p >= 90]
  /\ output' = {}
  /\ UNCHANGED <<upload_file_table, temp_files, task_queue, cloud, progress_notifiers,
                 is_exceed_storage_limit, calls, recovery, faults,
                 network_reachable, manager>>

\* cloud.upload_part fails: handle_upload_error, an error event, the error.
upload_part_failed(r, kind) ==
  LET uf == run[r]
      f == uf.file IN
  /\ uf.pc = "parts"
  /\ CanSend
  /\ upload_file_table' = handle_upload_error_table(upload_file_table, kind, uf.upload_id)
  /\ upload_file_part' = handle_upload_error_parts(upload_file_part, kind, uf.upload_id)
  /\ output' = handle_upload_error_notify(kind)
  /\ global_notifier' = Append(global_notifier, Event(f, 0, TRUE))
  /\ run' = [run EXCEPT ![r] = Returned(uf, kind)]
  /\ hist' = Ended(hist, f, "failed")
  /\ UNCHANGED <<temp_files, task_queue, cloud, progress_notifiers,
                 is_exceed_storage_limit, calls, recovery, faults,
                 network_reachable, manager>>

\* next_chunk yields an I/O error: the loop is left by break.
next_chunk_failed(r) ==
  /\ run[r].pc = "parts"
  /\ run' = [run EXCEPT ![r].pc = "complete"]
  /\ output' = {}
  /\ UNCHANGED <<dbVars, temp_files, task_queue, cloud, global_notifier,
                 progress_notifiers, is_exceed_storage_limit, calls, recovery, hist,
                 faults,
                 network_reachable, manager>>

\* get_object_url_v1 fails, in the loop or at the head of complete_upload: the
\* error leaves start_upload by `?` (handle_upload_error has nothing to do for it).
get_object_url_failed(r) ==
  LET uf == run[r] IN
  /\ uf.pc \in {"parts", "complete"}
  /\ run' = [run EXCEPT ![r] = Returned(uf, "transient")]
  /\ hist' = Ended(hist, uf.file, "failed")
  /\ output' = {}
  /\ UNCHANGED <<dbVars, temp_files, task_queue, cloud, global_notifier,
                 progress_notifiers, is_exceed_storage_limit, calls, recovery, faults,
                 network_reachable, manager>>

\* ---------------------------------------------------------- complete_upload
\* cloud.complete_upload succeeds: progress 1.0, update_upload_file_completed,
\* delete_temp_file.
complete_upload_ok(r) ==
  LET uf == run[r]
      f == uf.file IN
  /\ uf.pc = "complete"
  /\ CanSend
  /\ cloud' = [cloud EXCEPT !.completed[f] = TRUE]
  /\ global_notifier' = Append(global_notifier, Event(f, 100, FALSE))
  /\ upload_file_table' = update_upload_file_completed(upload_file_table, uf.upload_id)
  /\ temp_files' = temp_files \ {f}
  /\ run' = [run EXCEPT ![r] = Returned(uf, "ok")]
  /\ hist' = Ended(hist, f, "finished")
  /\ output' = {}
  /\ UNCHANGED <<upload_file_part, task_queue, progress_notifiers,
                 is_exceed_storage_limit, calls, recovery, faults,
                 network_reachable, manager>>

\* The parts left in the store by the failure arm of complete_upload.
parts_after_complete_failure(pts, uid) == delete_all_upload_parts(pts, uid)

\* cloud.complete_upload fails: an error event, delete_all_upload_parts, the
\* error; start_upload then calls handle_upload_error and returns it.
complete_upload_failed(r, kind) ==
  LET uf == run[r]
      f == uf.file
      pts == parts_after_complete_failure(upload_file_part, uf.upload_id) IN
  /\ uf.pc = "complete"
  /\ CanSend
  /\ global_notifier' = Append(global_notifier, Event(f, 0, TRUE))
  /\ upload_file_part' = handle_upload_error_parts(pts, kind, uf.upload_id)
  /\ upload_file_table' = handle_upload_error_table(upload_file_table, kind, uf.upload_id)
  /\ output' = handle_upload_error_notify(kind)
  /\ run' = [run EXCEPT ![r] = Returned(uf, kind)]
  /\ hist' = Ended(hist, f, "complete_failed")
  /\ UNCHANGED <<temp_files, task_queue, cloud, progress_notifiers,
                 is_exceed_storage_limit, calls, recovery, faults,
                 network_reachable, manager>>

\* ------------------------------------------------- FileUploader and its queue
\* dequeue: the first ImmediateTask if there is one, else the head.
NextTaskIndex(q) ==
  IF \E i \in 1..Len(q) : q[i].kind = "ImmediateTask"
  THEN CHOOSE i \in 1..Len(q) :
         /\ q[i].kind = "ImmediateTask"
         /\ \A j \in 1..(i - 1) : q[j].kind # "ImmediateTask"
  ELSE 1

RemoveAt(q, i) == SubSeq(q, 1, i - 1) \o SubSeq(q, i + 1, Len(q))

\* A task carrying its record: StorageService::start_upload on the carried
\* UploadFileTable, whose upload_id is the one create_upload_record gave it.
uploader_start_upload ==
  LET i == NextTaskIndex(task_queue)
      t == task_queue[i] IN
  /\ run["uploader"].pc = "idle"
  /\ ~manager.dropped
  /\ ~is_exceed_storage_limit
  /\ network_reachable
  /\ task_queue # <<>>
  /\ t.kind \in {"ImmediateTask", "Task"}
  /\ task_queue' = RemoveAt(task_queue, i)
  /\ run' = [run EXCEPT !["uploader"] = StartRun(t.file, create_upload_record.upload_id, t)]
  /\ output' = {}
  /\ UNCHANGED <<dbVars, temp_files, cloud, global_notifier, progress_notifiers,
                 is_exceed_storage_limit, calls, recovery, hist, faults,
                 network_reachable, manager>>

\* StorageServiceImpl::resume_upload: select_upload_file, then start_upload on
\* the row read; a missing row is logged and the call returns Ok.
resume_upload(r, f, t) ==
  IF upload_file_table[f].present
  THEN [run EXCEPT ![r] = StartRun(f, upload_file_table[f].upload_id, t)]
  ELSE run

\* A BackgroundTask: StorageService::resume_upload by identity.
uploader_resume_upload ==
  LET i == NextTaskIndex(task_queue)
      t == task_queue[i] IN
  /\ run["uploader"].pc = "idle"
  /\ ~manager.dropped
  /\ ~is_exceed_storage_limit
  /\ network_reachable
  /\ task_queue # <<>>
  /\ t.kind = "BackgroundTask"
  /\ task_queue' = RemoveAt(task_queue, i)
  /\ run' = resume_upload("uploader", t.file, t)
  /\ output' = {}
  /\ UNCHANGED <<dbVars, temp_files, cloud, global_notifier, progress_notifiers,
                 is_exceed_storage_limit, calls, recovery, hist, faults,
                 network_reachable, manager>>

\* The run succeeded, or failed with an error that is not retried (the record of
\* a file over the single-file limit was removed by handle_upload_error).
uploader_task_done ==
  LET uf == run["uploader"] IN
  /\ uf.pc = "returned"
  /\ uf.result \in {"ok", "missing_file", "single_file_limit"}
  /\ run' = [run EXCEPT !["uploader"] = IdleRun]
  /\ output' = {}
  /\ UNCHANGED <<dbVars, temp_files, task_queue, cloud, global_notifier,
                 progress_notifiers, is_exceed_storage_limit, calls, recovery, hist,
                 faults,
                 network_reachable, manager>>

\* Transient failure with retries left: back to the queue, one retry fewer.
uploader_retry ==
  LET uf == run["uploader"] IN
  /\ uf.pc = "returned"
  /\ uf.result = "transient"
  /\ uf.task.retry_count - 1 > 0
  /\ Len(task_queue) < MaxQueue
  /\ task_queue' = Append(task_queue,
                          [uf.task EXCEPT !.retry_count = uf.task.retry_count - 1])
  /\ run' = [run EXCEPT !["uploader"] = IdleRun]
  /\ output' = {}
  /\ UNCHANGED <<dbVars, temp_files, cloud, global_notifier, progress_notifiers,
                 is_exceed_storage_limit, calls, recovery, hist, faults,
                 network_reachable, manager>>

\* Transient failure, no retry left: an error progress event, the task dropped.
uploader_give_up ==
  LET uf == run["uploader"] IN
  /\ uf.pc = "returned"
  /\ uf.result = "transient"
  /\ uf.task.retry_count - 1 <= 0
  /\ CanSend
  /\ global_notifier' = Append(global_notifier, Event(uf.file, 0, TRUE))
  /\ run' = [run EXCEPT !["uploader"] = IdleRun]
  /\ output' = {}
  /\ UNCHANGED <<dbVars, temp_files, task_queue, cloud, progress_notifiers,
                 is_exceed_storage_limit, calls, recovery, hist, faults,
                 network_reachable, manager>>

\* Workspace quota exceeded: the flag is latched and the task waits in the queue.
uploader_quota_exceeded ==
  LET uf == run["uploader"] IN
  /\ uf.pc = "returned"
  /\ uf.result = "file_limit"
  /\ Len(task_queue) < MaxQueue
  /\ is_exceed_storage_limit' = TRUE
  /\ task_queue' = Append(task_queue, uf.task)
  /\ run' = [run EXCEPT !["uploader"] = IdleRun]
  /\ output' = {}
  /\ UNCHANGED <<dbVars, temp_files, cloud, global_notifier, progress_notifiers,
                 calls, recovery, hist, faults,
                 network_reachable, manager>>

\* A caller of StorageService::resume_upload, on its own task.
caller_resume_upload(f) ==
  /\ run["caller"].pc = "idle"
  /\ upload_file_table[f].present
  /\ run' = resume_upload("caller", f, NoTask)
  /\ output' = {}
  /\ UNCHANGED <<dbVars, temp_files, task_queue, cloud, global_notifier,
                 progress_notifiers, is_exceed_storage_limit, calls, recovery, hist,
                 faults,
                 network_reachable, manager>>

caller_returned ==
  /\ run["caller"].pc = "returned"
  /\ run' = [run EXCEPT !["caller"] = IdleRun]
  /\ output' = {}
  /\ UNCHANGED <<dbVars, temp_files, task_queue, cloud, global_notifier,
                 progress_notifiers, is_exceed_storage_limit, calls, recovery, hist,
                 faults,
                 network_reachable, manager>>

\* ----------------------------------------------------------- StorageManager
\* enable_storage_write_access: the uploader clears the quota flag.
enable_storage_write_access ==
  /\ is_exceed_storage_limit
  /\ is_exceed_storage_limit' = FALSE
  /\ output' = {}
  /\ UNCHANGED <<dbVars, temp_files, task_queue, run, cloud, global_notifier,
                 progress_notifiers, calls, recovery, hist, faults,
                 network_reachable, manager>>

\* update_network_reachable: the uploader resumes or pauses.
update_network_reachable(reachable) ==
  /\ network_reachable # reachable
  /\ network_reachable' = reachable
  /\ output' = {}
  /\ UNCHANGED <<dbVars, temp_files, task_queue, run, cloud, global_notifier,
                 progress_notifiers, is_exceed_storage_limit, calls, recovery, hist,
                 faults, manager>>

\* The runner holds the uploader, and through it the storage service, while it
\* processes a task.
UploaderHeld == run["uploader"].pc # "idle"

\* weak_uploader.upgrade() succeeds: the manager or the runner holds the uploader.
weak_uploader_upgrade == ~manager.dropped \/ UploaderHeld

\* weak_notifier.upgrade() succeeds: the manager or a live storage service
\* holds progress_notifiers.
weak_notifier_upgrade == ~manager.dropped \/ UploaderHeld

\* A Sender of the broadcast channel exists: the manager's, the storage
\* service's, or the clone handed to a run.
SenderAlive == ~manager.dropped \/ UploaderHeld

\* The StorageManager is dropped; no call on it is in progress.
drop_manager ==
  /\ ~manager.dropped
  /\ \A c \in Callers : calls[c].pc = "idle"
  /\ run["caller"].pc = "idle"
  /\ manager' = [manager EXCEPT !.dropped = TRUE]
  /\ output' = {}
  /\ UNCHANGED <<dbVars, temp_files, task_queue, run, cloud, global_notifier,
                 progress_notifiers, is_exceed_storage_limit, calls, recovery, hist,
                 faults, network_reachable>>

\* The warm-up elapses and weak_uploader.upgrade() fails: the task ends.
recovery_skipped ==
  /\ recovery = "sleeping"
  /\ ~weak_uploader_upgrade
  /\ recovery' = "done"
  /\ output' = {}
  /\ UNCHANGED <<dbVars, temp_files, task_queue, run, cloud, global_notifier,
                 progress_notifiers, is_exceed_storage_limit, calls, hist, faults,
                 network_reachable, manager>>

\* The sequences listing each member of S once.
Orderings(S) ==
  {s \in [1..Cardinality(S) -> S] : \A i, j \in 1..Cardinality(S) : s[i] = s[j] => i = j}

\* The deferred recovery task: unfinished records become BackgroundTasks.
\* A recovered task that would be retried like an immediate one.
background_task_retried(f) ==
  [kind |-> "BackgroundTask", file |-> f, retry_count |-> ImmediateRetry]

\* UploadTask::BackgroundTask { .., retry_count: 0 } built from a stored record.
background_task(f) ==
  [kind |-> "BackgroundTask", file |-> f, retry_count |-> BackgroundRetry]

prepare_upload_task ==
  LET found == batch_select_upload_file(upload_file_table) IN
  /\ recovery = "sleeping"
  /\ weak_uploader_upgrade
  /\ Len(task_queue) + Cardinality(found) <= MaxQueue
  /\ \E order \in Orderings(found) :
       task_queue' = task_queue \o
         [i \in 1..Len(order) |-> background_task(order[i])]
  /\ recovery' = "done"
  /\ output' = {}
  /\ UNCHANGED <<dbVars, temp_files, run, cloud, global_notifier, progress_notifiers,
                 is_exceed_storage_limit, calls, hist, faults,
                 network_reachable, manager>>

\* The value query_file_state sends: 1.0 if is_finish, else 0.0.
query_progress(is_finish) == IF is_finish THEN 100 ELSE 0

query_file_state(f) ==
  /\ upload_file_table[f].present
  /\ CanSend
  /\ global_notifier' = Append(global_notifier,
       Event(f, query_progress(upload_file_table[f].is_finish), FALSE))
  /\ output' = {}
  /\ UNCHANGED <<dbVars, temp_files, task_queue, run, cloud, progress_notifiers,
                 is_exceed_storage_limit, calls, recovery, hist, faults,
                 network_reachable, manager>>

\* subscribe_file_progress: None for a completed record, else entry().or_insert_with.
subscribe_file_progress(f) ==
  /\ ~(upload_file_table[f].present /\ upload_file_table[f].is_finish)
  /\ ~progress_notifiers[f].present
  /\ progress_notifiers' = [progress_notifiers EXCEPT ![f] = NewEntry]
  /\ output' = {}
  /\ UNCHANGED <<dbVars, temp_files, task_queue, run, cloud, global_notifier,
                 is_exceed_storage_limit, calls, recovery, hist, faults,
                 network_reachable, manager>>

\* The state the forwarder notifies for an event.
forwarded_state(e) ==
  IF e.progress >= 100
  THEN [present |-> TRUE, state |-> "Finished", progress |-> 100]
  ELSE [present |-> TRUE, state |-> "Uploading", progress |-> e.progress]

\* The progress forwarder receives one event; files without entry are skipped.
forward_progress ==
  LET e == Head(global_notifier) IN
  /\ manager.forwarder = "running"
  /\ global_notifier # <<>>
  /\ weak_notifier_upgrade
  /\ global_notifier' = Tail(global_notifier)
  /\ progress_notifiers' =
       IF progress_notifiers[e.file].present
       THEN [progress_notifiers EXCEPT ![e.file] = forwarded_state(e)]
       ELSE progress_notifiers
  /\ output' = {}
  /\ UNCHANGED <<dbVars, temp_files, task_queue, run, cloud, is_exceed_storage_limit,
                 calls, recovery, hist, faults,
                 network_reachable, manager>>

\* The forwarder receives an event and weak_notifier.upgrade() fails: break.
forwarder_break ==
  /\ manager.forwarder = "running"
  /\ global_notifier # <<>>
  /\ ~weak_notifier_upgrade
  /\ global_notifier' = Tail(global_notifier)
  /\ manager' = [manager EXCEPT !.forwarder = "exited"]
  /\ output' = {}
  /\ UNCHANGED <<dbVars, temp_files, task_queue, run, cloud, progress_notifiers,
                 is_exceed_storage_limit, calls, recovery, hist, faults,
                 network_reachable>>

\* rx.recv() on the empty channel whose senders are all gone yields Err: the
\* `while let Ok` loop ends.
forwarder_closed ==
  /\ manager.forwarder = "running"
  /\ global_notifier = <<>>
  /\ ~SenderAlive
  /\ manager' = [manager EXCEPT !.forwarder = "exited"]
  /\ output' = {}
  /\ UNCHANGED <<dbVars, temp_files, task_queue, run, cloud, global_notifier,
                 progress_notifiers, is_exceed_storage_limit, calls, recovery, hist,
                 faults, network_reachable>>

\* ------------------------------------------------------------ specifications
create_upload(c, files) ==
  \/ create_upload_rejected(c)
  \/ \E f \in files : create_upload_copy(c, f)
  \/ create_upload_insert(c)
  \/ \E b \in BOOLEAN : create_upload_enqueue(c, b)
  \/ create_upload_register(c)

start_upload(r) ==
  \/ start_upload_missing_file(r)
  \/ start_upload_begin(r)
  \/ \E uid \in 1..MaxUploadId : start_upload_create(r, uid)
  \/ \E kind \in ErrKinds : start_upload_create_failed(r, kind)
  \/ upload_part_ok(r)
  \/ \E kind \in ErrKinds : upload_part_failed(r, kind)
  \/ next_chunk_failed(r)
  \/ get_object_url_failed(r)
  \/ complete_upload_ok(r)
  \/ \E kind \in ErrKinds : complete_upload_failed(r, kind)

FileUploader ==
  \/ uploader_start_upload
  \/ uploader_resume_upload
  \/ uploader_task_done
  \/ uploader_retry
  \/ uploader_give_up
  \/ uploader_quota_exceeded

StorageManager ==
  \/ enable_storage_write_access
  \/ prepare_upload_task
  \/ \E f \in {"f1"} : query_file_state(f)
  \/ \E f \in {"f1"} : subscribe_file_progress(f)
  \/ forward_progress

\* One caller creating uploads of one file, the uploader, the manager's tasks.
Next ==
  \/ create_upload("c1", {"f1"})
  \/ start_upload("uploader")
  \/ FileUploader
  \/ StorageManager

Spec == Init /\ [][Next]_vars

\* The same engine when a seek of set_offset can fail.
NextSeek ==
  \/ create_upload("c1", {"f2"})
  \/ start_upload("uploader")
  \/ start_upload_set_offset_failed("uploader")
  \/ FileUploader
  \/ prepare_upload_task
  \/ forward_progress

SpecSeek == InitSeek /\ [][NextSeek]_vars

\* A session constructed over a store that holds the unfinished record of the
\* one-chunk file, as a create_upload of an earlier session left it.
InitResume ==
  /\ upload_file_table = [f \in Files |-> IF f = "f2" THEN create_upload_record ELSE NoRow]
  /\ upload_file_part = {}
  /\ temp_files = {"f2"}
  /\ task_queue = <<>>
  /\ run = [r \in Runners |-> IdleRun]
  /\ cloud = [next |-> 1, session |-> [f \in Files |-> 0],
              completed |-> [f \in Files |-> FALSE]]
  /\ global_notifier = <<>>
  /\ progress_notifiers = [f \in Files |-> NoEntry]
  /\ is_exceed_storage_limit = FALSE
  /\ output = {}
  /\ calls = [c \in Callers |-> IdleCall]
  /\ recovery = "sleeping"
  /\ hist = [complete_failed |-> [f \in Files |-> FALSE],
             uploading90 |-> [f \in Files |-> FALSE]]
  /\ faults = 0
  /\ network_reachable = TRUE
  /\ manager = [dropped |-> FALSE, forwarder |-> "running"]

\* The recovery scan and the uploader's run of its task, next to a caller of
\* StorageService::resume_upload for the same file.
NextConc ==
  \/ prepare_upload_task
  \/ uploader_resume_upload
  \/ start_upload("uploader")
  \/ uploader_task_done
  \/ uploader_give_up
  \/ uploader_quota_exceeded
  \/ enable_storage_write_access
  \/ caller_resume_upload("f2")
  \/ start_upload("caller")
  \/ caller_returned
  \/ forward_progress

SpecConc == InitResume /\ [][NextConc]_vars

\* Two callers of create_upload with the same content and parent_dir.
NextDup ==
  \/ create_upload("c1", {"f2"})
  \/ create_upload("c2", {"f2"})
  \/ start_upload("uploader")
  \/ FileUploader
  \/ prepare_upload_task
  \/ forward_progress

SpecDup == Init /\ [][NextDup]_vars

\* The engine while the host reports the network going away and coming back.
NextNet ==
  \/ create_upload("c1", {"f1"})
  \/ start_upload("uploader")
  \/ FileUploader
  \/ prepare_upload_task
  \/ forward_progress
  \/ \E reachable \in BOOLEAN : update_network_reachable(reachable)

SpecNet == Init /\ [][NextNet]_vars

\* The engine given an empty file: next_chunk yields None at once, so the loop
\* body is never entered.
NextEmpty ==
  \/ create_upload("c1", {"f0"})
  \/ start_upload_missing_file("uploader")
  \/ start_upload_begin("uploader")
  \/ \E uid \in 1..MaxUploadId : start_upload_create("uploader", uid)
  \/ \E kind \in ErrKinds : start_upload_create_failed("uploader", kind)
  \/ get_object_url_failed("uploader")
  \/ complete_upload_ok("uploader")
  \/ \E kind \in ErrKinds : complete_upload_failed("uploader", kind)
  \/ FileUploader
  \/ prepare_upload_task
  \/ forward_progress

SpecEmpty == Init /\ [][NextEmpty]_vars

\* The engine whose StorageManager may be dropped at any time between calls.
NextDrop ==
  \/ create_upload("c1", {"f2"})
  \/ start_upload("uploader")
  \/ FileUploader
  \/ prepare_upload_task
  \/ recovery_skipped
  \/ forward_progress
  \/ forwarder_break
  \/ forwarder_closed
  \/ drop_manager

SpecDrop == Init /\ [][NextDrop]_vars

\* A session constructed over a store that holds the unfinished records of two
\* files, neither initiated yet, as two create_upload calls of an earlier
\* session left them.
InitTwo ==
  /\ upload_file_table =
       [f \in Files |-> IF f \in {"f1", "f2"} THEN create_upload_record ELSE NoRow]
  /\ upload_file_part = {}
  /\ temp_files = {"f1", "f2"}
  /\ task_queue = <<>>
  /\ run = [r \in Runners |-> IdleRun]
  /\ cloud = [next |-> 1, session |-> [f \in Files |-> 0],
              completed |-> [f \in Files |-> FALSE]]
  /\ global_notifier = <<>>
  /\ progress_notifiers = [f \in Files |-> NoEntry]
  /\ is_exceed_storage_limit = FALSE
  /\ output = {}
  /\ calls = [c \in Callers |-> IdleCall]
  /\ recovery = "sleeping"
  /\ hist = [complete_failed |-> [f \in Files |-> FALSE],
             uploading90 |-> [f \in Files |-> FALSE]]
  /\ faults = 0
  /\ network_reachable = TRUE
  /\ manager = [dropped |-> FALSE, forwarder |-> "running"]

\* The recovery scan and the uploader working through the two recovered tasks;
\* the temp file of an unfinished record is in place.
NextTwo ==
  \/ prepare_upload_task
  \/ uploader_resume_upload
  \/ start_upload_begin("uploader")
  \/ \E uid \in 1..MaxUploadId : start_upload_create("uploader", uid)
  \/ \E kind \in ErrKinds : start_upload_create_failed("uploader", kind)
  \/ upload_part_ok("uploader")
  \/ \E kind \in ErrKinds : upload_part_failed("uploader", kind)
  \/ next_chunk_failed("uploader")
  \/ get_object_url_failed("uploader")
  \/ complete_upload_ok("uploader")
  \/ \E kind \in ErrKinds : complete_upload_failed("uploader", kind)
  \/ uploader_task_done
  \/ uploader_give_up
  \/ uploader_quota_exceeded
  \/ enable_storage_write_access
  \/ forward_progress

SpecTwo == InitTwo /\ [][NextTwo]_vars

\* =================================================================== claims
\* A run of start_upload that has begun and not yet returned.
Active(r) == run[r].pc \in {"begin", "create", "parts", "complete"}

\* The events the step sends on the broadcast channel.
Sent ==
  IF Len(global_notifier') > Len(global_notifier)
  THEN {global_notifier'[Len(global_notifier')]}
  ELSE {}

\* The step is the forwarder receiving the head of the channel.
Forwards == global_notifier # <<>> /\ global_notifier' = Tail(global_notifier)

\* The step in which the run of r leaves complete_upload with the given outcome.
CompletionFails(r) ==
  /\ run[r].pc = "complete"
  /\ run'[r].pc = "returned"
  /\ hist'.complete_failed[run[r].file]

ReturnsOk(r) ==
  /\ run[r].pc = "complete"
  /\ run'[r].pc = "returned"
  /\ run'[r].result = "ok"

\* The step persists a part for the run of r.
UploadsPart(r) ==
  /\ run[r].pc = "parts"
  /\ run'[r].pc \in {"parts", "complete"}
  /\ run'[r].part_number = run[r].part_number + 1

\* A create_upload call past a successful insert_upload_file, not yet returned.
Won == {"inserted", "enqueued"}

\* C1 (as stated): for every record in the store, the part numbers persisted
\* under its current upload_id are exactly 1..k for some k <= num_chunk.
C1_PartsArePrefix ==
  \A f \in Files :
    upload_file_table[f].present =>
      \E k \in 0..NumChunk(f) : RecordParts(f) = 1..k

\* C2 (as stated): at every moment at most one run of start_upload is active
\* for a given file identity.
C2_OneActiveRun ==
  \A r1, r2 \in Runners :
    (Active(r1) /\ Active(r2) /\ run[r1].file = run[r2].file) => r1 = r2

\* C3: no event above 0.9 is sent for a file, no entry is Finished and no record
\* is marked finished unless cloud.complete_upload has succeeded for that file;
\* in particular the event sent after a part acknowledgment is at most 0.9.
C3_NoFullProgressBeforeCompletion ==
  [][\A f \in Files :
       /\ \A e \in Sent : (e.file = f /\ e.progress > 90) => cloud'.completed[f]
       /\ \A r \in Runners, e \in Sent :
            (UploadsPart(r) /\ run[r].file = f) => e.progress <= 90
       /\ progress_notifiers'[f].state = "Finished" => cloud'.completed[f]
       /\ (upload_file_table'[f].present /\ upload_file_table'[f].is_finish)
            => cloud'.completed[f]]_vars

\* An event of value 0.9 for the last part waits in the channel while the
\* remote has not completed the file.
C3_Witness ==
  \E i \in 1..Len(global_notifier) :
    /\ global_notifier[i].progress = 90
    /\ ~global_notifier[i].error
    /\ ~cloud.completed[global_notifier[i].file]
    /\ run["uploader"].pc = "complete"

\* C4 (as stated): the non-error progress values of a file never decrease: a
\* non-error event forwarded to an entry holding Uploading(p) carries at least p.
C4_ProgressNonDecreasing ==
  [][\A f \in Files :
       (/\ Forwards
        /\ Head(global_notifier).file = f
        /\ ~Head(global_notifier).error
        /\ progress_notifiers[f].state = "Uploading")
       => Head(global_notifier).progress >= progress_notifiers[f].progress]_vars

\* C5 (as stated, on the step that delivers the terminal event): when the
\* forwarder delivers the terminal event of an upload to a registered entry,
\* the entry holds Error for an error event, Finished for a completed upload.
C5_TerminalStateObserved ==
  [][\A f \in Files :
       (/\ Forwards
        /\ Head(global_notifier).file = f
        /\ progress_notifiers[f].present)
       => /\ Head(global_notifier).error => progress_notifiers'[f].state = "Error"
          /\ (~Head(global_notifier).error /\ Head(global_notifier).progress = 100)
               => progress_notifiers'[f].state = "Finished"]_vars

\* C6 (as stated): a run uploads no part that is already persisted: the part it
\* gives to cloud.upload_part is not stored under its upload_id.
C6_NoPartUploadedAgain ==
  [][\A r \in Runners :
       UploadsPart(r) =>
         <<run[r].upload_id, run[r].part_number>> \notin upload_file_part]_vars

\* C7 (as stated): when cloud.complete_upload fails, the parts of the run's
\* upload_id are deleted, an error event is sent and an error is returned; the
\* next run of that file starts from no completed parts, calls
\* cloud.create_upload again and numbers its parts from 1.
C7_CompleteFailureRestartsFromPartOne ==
  [][\A r \in Runners :
       /\ CompletionFails(r) =>
            /\ select_upload_parts(upload_file_part', run[r].upload_id) = {}
            /\ \E e \in Sent : e.file = run[r].file /\ e.error
            /\ run'[r].result \notin {"ok", "none"}
       /\ (run'[r].after_cf /\ run[r].pc = "begin" /\ run'[r].pc = "create") =>
            /\ run'[r].offset = 0
            /\ run'[r].completed_parts = <<>>
       /\ (run[r].after_cf /\ run[r].pc = "create"
             /\ run'[r].pc \in {"parts", "complete"}) =>
            /\ run'[r].upload_id = cloud'.session[run[r].file]
            /\ run'[r].part_number = 1
       /\ (run[r].after_cf /\ UploadsPart(r)) =>
            /\ run[r].part_number = run[r].pos + 1
            /\ run[r].completed_parts = [i \in 1..run[r].pos |-> i]]_vars

\* C8 (as stated): when a run returns success, the remote completion succeeded,
\* the event 1.0 was sent, the record is marked finished and the temp file is
\* removed.
C8_SuccessMarksRecordFinished ==
  [][\A r \in Runners :
       ReturnsOk(r) =>
         /\ cloud'.completed[run[r].file]
         /\ \E e \in Sent : e.file = run[r].file /\ e.progress = 100 /\ ~e.error
         /\ upload_file_table'[run[r].file].present
         /\ upload_file_table'[run[r].file].is_finish
         /\ run[r].file \notin temp_files']_vars

\* C9: a create_upload begun while the quota flag is set goes no further than
\* the quota test: it returns the storage-limit error with the
\* FileStorageLimitExceeded notification and changes nothing else.
C9_RejectedWhileQuotaExceeded ==
  [][\A c \in Callers :
       /\ (is_exceed_storage_limit /\ calls[c].pc = "idle") => calls'[c] = calls[c]
       /\ Return(c, "file_storage_limit") \in output' =>
            /\ is_exceed_storage_limit
            /\ Notify("FileStorageLimitExceeded") \in output'
            /\ UNCHANGED <<upload_file_table, upload_file_part, temp_files, task_queue,
                           progress_notifiers, run, global_notifier, calls>>]_vars

\* A rejected call: the error returned with the flag set.
C9_Witness ==
  /\ Return("c1", "file_storage_limit") \in output
  /\ Notify("FileStorageLimitExceeded") \in output
  /\ is_exceed_storage_limit

Enqueued ==
  IF Len(task_queue') > Len(task_queue)
  THEN {task_queue'[i] : i \in (Len(task_queue) + 1)..Len(task_queue')}
  ELSE {}

\* C11: a task is put in the queue by create_upload only in the step after its
\* call inserted the record of that file, and a call whose insert fails
\* (Duplicate, or the record could not be built) returns with the queue
\* unchanged; every queued or running task of create_upload is for a file
\* whose call got past the insert.
C11_InsertBeforeEnqueue ==
  [][/\ \A t \in Enqueued :
          (t.kind \in {"ImmediateTask", "Task"} /\ run' = run) =>
            \E c \in Callers :
              /\ calls[c].pc = "inserted"
              /\ calls'[c].pc = "enqueued"
              /\ calls[c].file = t.file
     /\ \A c \in Callers :
          /\ (calls[c].pc = "copied" /\ calls'[c].pc = "inserted") =>
               /\ upload_file_table'[calls[c].file] = create_upload_record
               /\ task_queue' = task_queue
          /\ (calls[c].pc = "copied" /\ calls'[c].pc \notin {"copied", "inserted"}) =>
               /\ calls'[c].pc = "idle"
               /\ task_queue' = task_queue
               /\ upload_file_table' = upload_file_table]_vars

\* The task of a call waits in the queue, its record inserted before it.
C11_Witness ==
  /\ calls["c1"].pc = "enqueued"
  /\ task_queue # <<>>
  /\ task_queue[Len(task_queue)].kind = "ImmediateTask"
  /\ upload_file_table["f1"].present

\* C12 (as stated): while the network is reported unreachable no part is given
\* to cloud.upload_part: a run that was uploading when
\* update_network_reachable(false) was called uploads no further part until
\* update_network_reachable(true).
C12_NoPartWhileUnreachable ==
  [][\A r \in Runners : UploadsPart(r) => network_reachable]_vars

\* The records of the store that are not finished.
Unfinished == {f \in Files : upload_file_table[f].present /\ ~upload_file_table[f].is_finish}

C14_FinishedAfterNinety ==
  [][\A e \in Sent : (e.progress = 100 /\ ~e.error) => hist.uploading90[e.file]]_vars

\* The loop of the run of r was left by a read error: the reader has not passed
\* every chunk and the run stands before complete_upload.
ReadErrorBreak(r) ==
  /\ run[r].pc = "complete"
  /\ run[r].pos < NumChunk(run[r].file)

\* C15 (as stated): after a read error has left the loop, the run uploads no
\* further part, does not call cloud.complete_upload with the incomplete part
\* list, does not return success and does not mark the record finished.
C15_ReadErrorFailsRun ==
  [][\A r \in Runners :
       ReadErrorBreak(r) =>
         /\ ~UploadsPart(r)
         /\ ~ReturnsOk(r)
         /\ ~CompletionFails(r)
         /\ \A f \in Files : upload_file_table'[f].is_finish => upload_file_table[f].is_finish]_vars

\* The step in which the run of r finds its local file missing and returns.
MissingFileStep(r) ==
  /\ run[r].pc = "begin"
  /\ run[r].file \notin temp_files
  /\ run'[r].pc = "returned"

\* C16 (as stated): a run whose local file does not exist deletes the record of
\* the file and returns an error, with no remote call and no progress event.
C16_MissingFileDeletesRecord ==
  [][\A r \in Runners :
       MissingFileStep(r) =>
         /\ ~upload_file_table'[run[r].file].present
         /\ run'[r].result = "missing_file"
         /\ cloud' = cloud
         /\ Sent = {}]_vars

\* The step in which the run of r returns the single-file-limit error of a
\* remote call.
SingleFileLimitStep(r) ==
  /\ run[r].pc \in {"create", "parts", "complete"}
  /\ run'[r].pc = "returned"
  /\ run'[r].result = "single_file_limit"

\* C17 (as stated): when a remote call of a run fails with the single-file-limit
\* error, the record of the file, its persisted parts and its temp file are
\* removed and SingleFileLimitExceeded is notified.
C17_SingleFileLimitCleansUp ==
  [][\A r \in Runners :
       SingleFileLimitStep(r) =>
         LET f == run[r].file IN
         /\ ~upload_file_table'[f].present
         /\ upload_file_table[f].present =>
              select_upload_parts(upload_file_part', upload_file_table[f].upload_id) = {}
         /\ f \notin temp_files'
         /\ Notify("SingleFileLimitExceeded") \in output']_vars

\* The step in which cloud.create_upload, called by the run of r, answers or fails.
CallsCreateUpload(r) ==
  /\ run[r].pc = "create"
  /\ run'[r].pc # "create"

\* C18 (as stated): a run calls cloud.create_upload only if the upload_id of its
\* record is empty, and a stored record that has an upload_id keeps it.
C18_CreateOnlyWithoutUploadId ==
  [][/\ \A r \in Runners : CallsCreateUpload(r) => run[r].upload_id = 0
     /\ \A f \in Files :
          (/\ upload_file_table[f].present
           /\ upload_file_table[f].upload_id # 0
           /\ upload_file_table'[f].present) =>
            upload_file_table'[f].upload_id = upload_file_table[f].upload_id]_vars

\* C19 (as stated): every persisted part row has a part number in
\* [1, num_chunk] and the current upload_id of an existing record.
C19_PartsBelongToRecord ==
  \A q \in upload_file_part :
    \E f \in Files :
      /\ upload_file_table[f].present
      /\ upload_file_table[f].upload_id = q[1]
      /\ q[2] \in 1..NumChunk(f)

\* The step in which the run of r returns an error after it has uploaded a part,
\* and so sent an Uploading event, in this run.
FailsAfterUploading(r) ==
  /\ run[r].pc \in {"parts", "complete"}
  /\ run[r].part_number > run[r].offset + 1
  /\ run'[r].pc = "returned"
  /\ run'[r].result # "ok"

\* C20 (as stated): a run that has published an Uploading event for its file
\* and returns an error publishes an Error event for that file before it returns.
C20_ErrorEventBeforeErrorReturn ==
  [][\A r \in Runners :
       FailsAfterUploading(r) =>
         \E e \in Sent : e.error /\ e.file = run[r].file]_vars

\* C21 (as stated): after the StorageManager is dropped, the recovery task ends
\* its warm-up without enqueuing anything.
C21_NoRecoveryAfterDrop ==
  [][(manager.dropped /\ recovery = "sleeping" /\ recovery' = "done") =>
       task_queue' = task_queue]_vars

\* The record of f is stored and marked finished.
Finished(f) == upload_file_table[f].present /\ upload_file_table[f].is_finish

\* The run of r takes a step of a remote call (create_upload, upload_part or
\* complete_upload, answered or failed).
RemoteCall(r) ==
  /\ run[r].pc \in {"create", "parts", "complete"}
  /\ run'[r] # run[r]

\* C22 (as stated): a record marked finished stays stored and finished, and no
\* run issues a remote call for it.
C22_FinishedRecordStays ==
  [][/\ \A f \in Files :
          Finished(f) => (upload_file_table'[f].present /\ upload_file_table'[f].is_finish)
     /\ \A r \in Runners : RemoteCall(r) => ~Finished(run[r].file)]_vars

\* The run of r takes a step.
RunSteps(r) == run[r].pc # "idle" /\ run'[r] # run[r]

\* C23 (as stated): a step of a run leaves the record of every other file, and
\* the parts stored for it, as they were; only the record the run was started
\* for can be deleted by it.
C23_OnlyOwnRecordDeleted ==
  [][\A r \in Runners :
       RunSteps(r) =>
         \A f \in Files \ {run[r].file} :
           /\ upload_file_table'[f] = upload_file_table[f]
           /\ upload_file_table[f].present =>
                select_upload_parts(upload_file_part', upload_file_table[f].upload_id)
                  = select_upload_parts(upload_file_part, upload_file_table[f].upload_id)]_vars

\* The tasks pending for f: those in the queue and the one the uploader runs.
PendingTasks(f) ==
  Cardinality({i \in 1..Len(task_queue) : task_queue[i].file = f})
    + (IF run["uploader"].pc # "idle" /\ run["uploader"].file = f THEN 1 ELSE 0)

\* C24 (as stated): no file has two tasks pending at the same time.
C24_OneTaskPerFile == \A f \in Files : PendingTasks(f) <= 1

====
